---- MODULE Spec2Model ----
(***************************************************************************)
(* State-machine model of the extobj crate: the extensible record          *)
(* (ExtObj / Var / Defs, src/src/lib.rs) over a heap of boxed values.      *)
(*                                                                         *)
(* A schema O owns one registry `defs[O]`, an RwLock<Vec<(ctor, dtor)>>.   *)
(* Var::__new appends to it under the write lock, ExtObj::new and          *)
(* Drop for ExtObj walk it under the read lock.  Each of these three is    *)
(* modelled as the steps a thread takes (call and block on the lock, take  *)
(* the lock, one step per registry entry, return), so that threads         *)
(* interleave exactly where the lock lets them.  get / get_mut are single  *)
(* steps.                                                                  *)
(***************************************************************************)
EXTENDS Integers, Sequences, FiniteSets, TLC

\* ---------------------------------------------------------------- bounds
MaxSlots == 2       \* registrations (Var::__new calls) per schema
MaxObjs == 2        \* ExtObj instances constructed in one run
MaxInt == 1         \* largest number stored in an i32 slot
NumThreads == 2     \* threads calling into the crate
NumWorkers == 3     \* worker threads of the concurrent_access test
MaxVals == 3        \* values handed to a TyStore or to erased cells in one run
MaxCells == 2       \* erased cells (ObjInner, DynObj) created in one run

Schemas == {"A", "B"}           \* extobj!(struct A); extobj!(struct B);
Types == {"i32", "bool"}        \* the slot types T of Var<O, T>
Threads == 1..NumThreads
ObjIds == 1..MaxObjs
Addrs == 1..(MaxObjs * MaxSlots)   \* heap cells Box::new can hand out
SlotIdx == 0..(MaxSlots - 1)

\* The values of a type, as numbers: bool is 0 (false) or 1 (true).
Values(T) == IF T = "bool" THEN 0..1 ELSE 0..MaxInt

VARIABLES
    defs,      \* defs[O]: the registry of schema O, a sequence of (ctor, dtor)
    lock,      \* lock[O]: the RwLock around defs[O]: writer (0: none), readers
    vars,      \* the Var<O, T> handles registration has returned
    objs,      \* objs[o]: the ExtObj instance o: state, schema, slot vector
    heap,      \* heap[a]: the boxed value at address a, or FreeCell
    th,        \* th[t]: where thread t is inside __new / new / drop
    ctorLog,   \* history: the constructor calls made while building o
    dropLog,   \* history: the destructor calls made while dropping o
    shadow,    \* history: per instance and handle index, the last value written
    lastOp,    \* what the last get / get_mut call returned
    crashed,   \* the process died of a fault
    faults,    \* history: memory errors (a box freed twice or as another type)
    extLock,   \* the RwLock around the shared instance: the workers holding it
    wk,        \* wk[w]: where worker w is, and the value it loaded
    mainw,     \* the test's main thread: position, loop index, the total it read
    store,     \* the TyStore: a map from type identity to ObjInner
    cells,     \* cells[c]: the erased cell c (ObjInner or DynObj)
    ret,       \* what the last TyStore or cell operation returned
    nmade,     \* history: how many values were handed to the store or to cells
    vidAt,     \* history: vidAt[a] is the serial number of the value boxed at a
    dropCnt,   \* history: dropCnt[n] is how often value n's destructor has run
    held,      \* the values the caller owns (returned by take / into_inner)
    debug      \* the build has debug_assertions (cfg(debug_assertions))

\* The concurrent_access test's state.
ext == <<extLock, wk, mainw>>

\* The state of the type-erased containers.
erased == <<store, cells, ret, nmade, vidAt, dropCnt, held, debug>>

vars_all == <<defs, lock, vars, objs, heap, th, ctorLog, dropLog, shadow,
              lastOp, crashed, faults, ext, erased>>

\* ------------------------------------------------------------------ heap
FreeCell == [ty |-> "none", val |-> 0]
IsLive(hp, a) == hp[a].ty # "none"

\* Mutant of BoxNew: the same box is handed out again and again.
BoxShared(hp) == 1

\* Box::into_raw(Box::new(v)): the address of a fresh allocation.
BoxNew(hp) ==
    CHOOSE a \in Addrs : ~IsLive(hp, a) /\ \A b \in Addrs : ~IsLive(hp, b) => a <= b

\* T::default() for the slot types: the integer 0, the boolean false.
TDefault(T) == 0

\* Mutant of init_default: the box holds 1 instead of the default.
init_one(T) == [ty |-> T, val |-> 1]

\* init_default::<T>: the boxed default value of T (the caller stores its address).
init_default(T) == [ty |-> T, val |-> TDefault(T)]

\* dropper::<T>(ptr): Box::from_raw(ptr as *mut T) dropped: the cell is freed.
dropper(T, ptr, hp) == [hp EXCEPT ![ptr] = FreeCell]

\* The memory errors dropper::<T>(ptr) commits on the heap hp.
dropperFaults(T, ptr, hp) ==
    IF ~IsLive(hp, ptr) THEN {"double_free"}
    ELSE IF hp[ptr].ty # T THEN {"type_confusion"}
    ELSE {}

\* *(ptr as *const T): the cell at ptr seen as a T.
Deref(T, ptr, hp) == [ty |-> T, val |-> hp[ptr].val]

\* -------------------------------------------------------------- registry
\* Mutant of Entry: every slot is registered with the destructor of i32.
EntryWrongDtor(T) == [ctor |-> T, dtor |-> "i32"]

\* The pair Var::<O, T>::__new pushes: (&init_default::<T>, &dropper::<T>).
Entry(T) == [ctor |-> T, dtor |-> T]

\* Var<O, T>(index, PhantomData, PhantomData)
Var(O, T, index) == [sch |-> O, ty |-> T, idx |-> index]

\* Mutant of NextIndex: the length is read after the push.
NextIndexAfterPush(O) == Len(defs[O]) + 1

\* defs.len(), read under the write lock
NextIndex(O) == Len(defs[O])

\* Mutant of Push: the new entry goes in front of the others.
PushFront(v, e) == <<e>> \o v

\* defs.push(e): the vector with e behind its last entry
Push(v, e) == Append(v, e)

\* Mutant of CanWrite: a writer is let in beside another writer.
CanWriteBesideWriter(O) == lock[O].readers = {}

\* Mutant of CanWrite: a writer is let in while readers hold the lock.
CanWriteBesideReaders(O) == lock[O].writer = 0

\* RwLock::write succeeds: no writer and no reader holds the lock.
CanWrite(O) == lock[O].writer = 0 /\ lock[O].readers = {}

\* Mutant of CanRead: a reader is kept out by another reader too.
CanReadAlone(O) == lock[O].writer = 0 /\ lock[O].readers = {}

\* RwLock::read succeeds: no writer holds the lock.  (std leaves open whether
\* a waiting writer also holds readers back; this is the permissive policy.)
CanRead(O) == lock[O].writer = 0

Idle == [pc |-> "idle", sch |-> "-", ty |-> "-", i |-> 0, o |-> 0]
NoOp == [op |-> "none", o |-> 0, idx |-> 0, res |-> FreeCell, oob |-> FALSE]
NoObj == [st |-> "none", sch |-> "-", slots |-> <<>>, born |-> 0, known |-> {}]

Registering(O) ==
    {t \in Threads : th[t].sch = O /\ th[t].pc \in {"reg_wait", "reg_len", "reg_push"}}

\* A schema is in use once the construction of an instance of it has started.
InUse(O) == \E o \in ObjIds : objs[o].st # "none" /\ objs[o].sch = O

Min(a, b) == IF a <= b THEN a ELSE b

history == <<ctorLog, dropLog, shadow, faults>>

Workers == 0..(NumWorkers - 1)     \* for i in 0..4 { thread::spawn(..) }
ValIds == 1..MaxVals
CellIds == 1..MaxCells

WorkerIdle == [pc |-> "unspawned", tmp |-> 0]
MainIdle == [pc |-> "spawn", i |-> 0, total |-> 0]

\* FxHashMap::default(): the map without entries
EmptyMap == [T \in {} |-> 0]
NoCell == [st |-> "none", kind |-> "-", dropper |-> "none", ptr |-> 0, tid |-> "-",
           vid |-> 0, cur |-> 0]
\* What an operation of a TyStore or of a cell returned: for an Option, some
\* tells Some from None; flag is insert's "inserted"; called counts the calls
\* of the initialiser.
Ret(op, T, some, val, flag, called) ==
    [op |-> op, ty |-> T, some |-> some, val |-> val, flag |-> flag, called |-> called]
NoRet == Ret("none", "-", FALSE, 0, FALSE, 0)

\* Before the first call: empty registries (static CELL: Defs =
\* RwLock::new(Vec::new())), no instance, an empty store, no cell.
Start ==
    /\ defs = [O \in Schemas |-> <<>>]
    /\ lock = [O \in Schemas |-> [writer |-> 0, readers |-> {}]]
    /\ vars = {}
    /\ objs = [o \in ObjIds |-> NoObj]
    /\ heap = [a \in Addrs |-> FreeCell]
    /\ th = [t \in Threads |-> Idle]
    /\ ctorLog = [o \in ObjIds |-> <<>>]
    /\ dropLog = [o \in ObjIds |-> <<>>]
    /\ shadow = [o \in ObjIds |-> [k \in SlotIdx |-> FreeCell]]
    /\ lastOp = NoOp
    /\ crashed = FALSE
    /\ faults = {}
    /\ extLock = {}
    /\ wk = [w \in Workers |-> WorkerIdle]
    /\ mainw = MainIdle
    /\ store = EmptyMap
    /\ cells = [c \in CellIds |-> NoCell]
    /\ ret = NoRet
    /\ nmade = 0
    /\ vidAt = [a \in Addrs |-> 0]
    /\ dropCnt = [n \in ValIds |-> 0]
    /\ held = {}

\* The program starts, built without debug_assertions.  (Only a call with a
\* wrong type tells the two builds apart: see BuildInit.)
Init == Start /\ debug = FALSE

\* The program starts, built with or without debug_assertions.
BuildInit == Start /\ debug \in BOOLEAN

\* ------------------------------------------------- Var::__new (register)
\* A static initialiser calls Var::<O, T>::__new() and blocks on defs().write().
RegCall(t, O, T) ==
    /\ ~crashed
    /\ th[t].pc = "idle"
    /\ Len(defs[O]) + Cardinality(Registering(O)) < MaxSlots
    /\ th' = [th EXCEPT ![t] = [Idle EXCEPT !.pc = "reg_wait", !.sch = O, !.ty = T]]
    /\ lastOp' = NoOp
    /\ UNCHANGED <<defs, lock, vars, objs, heap, crashed, history>>
    /\ UNCHANGED <<ext, erased>>

\* let mut defs = O::defs().write().unwrap();
RegLock(t) ==
    /\ ~crashed
    /\ th[t].pc = "reg_wait"
    /\ CanWrite(th[t].sch)
    /\ lock' = [lock EXCEPT ![th[t].sch].writer = t]
    /\ th' = [th EXCEPT ![t].pc = "reg_len"]
    /\ lastOp' = NoOp
    /\ UNCHANGED <<defs, vars, objs, heap, crashed, history>>
    /\ UNCHANGED <<ext, erased>>

\* let index = defs.len();
RegLen(t) ==
    /\ ~crashed
    /\ th[t].pc = "reg_len"
    /\ th' = [th EXCEPT ![t].pc = "reg_push", ![t].i = NextIndex(th[t].sch)]
    /\ lastOp' = NoOp
    /\ UNCHANGED <<defs, lock, vars, objs, heap, crashed, history>>
    /\ UNCHANGED <<ext, erased>>

\* defs.push((&init_default::<T>, &dropper::<T>)); Self(index, ..); the guard
\* is dropped on return.
RegPush(t) ==
    LET O == th[t].sch IN
    /\ ~crashed
    /\ th[t].pc = "reg_push"
    /\ defs' = [defs EXCEPT ![O] = Push(@, Entry(th[t].ty))]
    /\ vars' = vars \cup {Var(O, th[t].ty, th[t].i)}
    /\ lock' = [lock EXCEPT ![O].writer = 0]
    /\ th' = [th EXCEPT ![t] = Idle]
    /\ lastOp' = NoOp
    /\ UNCHANGED <<objs, heap, crashed, history>>
    /\ UNCHANGED <<ext, erased>>

\* ------------------------------------------------------------ ExtObj::new
\* A thread calls ExtObj::<O>::new() and blocks on defs().read().  The instance
\* under construction gets the next unused identity.
NewCall(t, O) ==
    /\ ~crashed
    /\ th[t].pc = "idle"
    /\ \E o \in ObjIds :
        /\ objs[o].st = "none"
        /\ \A p \in ObjIds : objs[p].st = "none" => o <= p
        /\ objs' = [objs EXCEPT ![o] = [NoObj EXCEPT !.st = "building", !.sch = O]]
        /\ th' = [th EXCEPT ![t] = [Idle EXCEPT !.pc = "new_wait", !.sch = O, !.o = o]]
    /\ lastOp' = NoOp
    /\ UNCHANGED <<defs, lock, vars, heap, crashed, history>>
    /\ UNCHANGED <<ext, erased>>

\* impl Default for ExtObj: fn default() -> Self { Self::new() }
DefaultCall(t, O) == NewCall(t, O)

\* O::defs().read().unwrap().iter(): the read lock is taken and the iteration
\* starts at the first entry.  born and known record what the registry and the
\* handles were at this moment.
NewLock(t) ==
    LET O == th[t].sch IN
    /\ ~crashed
    /\ th[t].pc = "new_wait"
    /\ CanRead(O)
    /\ lock' = [lock EXCEPT ![O].readers = @ \cup {t}]
    /\ objs' = [objs EXCEPT ![th[t].o].born = Len(defs[O]),
                            ![th[t].o].known = {h \in vars : h.sch = O}]
    /\ th' = [th EXCEPT ![t].pc = "new_iter", ![t].i = 0]
    /\ lastOp' = NoOp
    /\ UNCHANGED <<defs, vars, heap, crashed, history>>
    /\ UNCHANGED <<ext, erased>>

\* Mutant of CtorsLeft: the iteration leaves out the last entry.
CtorsLeftButOne(t) == th[t].i + 1 < Len(defs[th[t].sch])

\* The iterator over the registry has entries left for thread t.
CtorsLeft(t) == th[t].i < Len(defs[th[t].sch])

\* .map(|(a, _)| a()): the constructor of the next entry runs and its address
\* is collected.
NewCtor(t) ==
    LET O == th[t].sch
        o == th[t].o
        a == BoxNew(heap)
    IN
    /\ ~crashed
    /\ th[t].pc = "new_iter"
    /\ CtorsLeft(t)
    /\ heap' = [heap EXCEPT ![a] = init_default(defs[O][th[t].i + 1].ctor)]
    /\ objs' = [objs EXCEPT ![o].slots = Append(@, a)]
    /\ ctorLog' = [ctorLog EXCEPT ![o] =
                      Append(@, [ctor |-> defs[O][th[t].i + 1].ctor, addr |-> a])]
    /\ th' = [th EXCEPT ![t].i = @ + 1]
    /\ lastOp' = NoOp
    /\ UNCHANGED <<defs, lock, vars, crashed, dropLog, shadow, faults>>
    /\ UNCHANGED <<ext, erased>>

\* .collect(): the iteration is over, the read guard is dropped, Self(..) is
\* returned.
NewRet(t) ==
    LET O == th[t].sch IN
    /\ ~crashed
    /\ th[t].pc = "new_iter"
    /\ ~CtorsLeft(t)
    /\ lock' = [lock EXCEPT ![O].readers = @ \ {t}]
    /\ objs' = [objs EXCEPT ![th[t].o].st = "live"]
    /\ th' = [th EXCEPT ![t] = Idle]
    /\ lastOp' = NoOp
    /\ UNCHANGED <<defs, vars, heap, crashed, history>>
    /\ UNCHANGED <<ext, erased>>

\* -------------------------------------------------------- Drop for ExtObj
\* The instance o goes out of scope in thread t: drop(&mut self) is called and
\* blocks on defs().read().  Nothing reads the instance any more: what was
\* written to it is forgotten.
DropCall(t, o) ==
    /\ ~crashed
    /\ th[t].pc = "idle"
    /\ objs[o].st = "live"
    /\ objs' = [objs EXCEPT ![o].st = "dropping"]
    /\ shadow' = [shadow EXCEPT ![o] = [k \in SlotIdx |-> FreeCell]]
    /\ th' = [th EXCEPT ![t] = [Idle EXCEPT !.pc = "drop_wait", !.sch = objs[o].sch,
                                            !.o = o]]
    /\ lastOp' = NoOp
    /\ UNCHANGED <<defs, lock, vars, heap, crashed, ctorLog, dropLog, faults>>
    /\ UNCHANGED <<ext, erased>>

\* self.0.iter().zip(O::defs().read().unwrap().iter())
DropLock(t) ==
    LET O == th[t].sch IN
    /\ ~crashed
    /\ th[t].pc = "drop_wait"
    /\ CanRead(O)
    /\ lock' = [lock EXCEPT ![O].readers = @ \cup {t}]
    /\ th' = [th EXCEPT ![t].pc = "drop_iter", ![t].i = 0]
    /\ lastOp' = NoOp
    /\ UNCHANGED <<defs, vars, objs, heap, crashed, history>>
    /\ UNCHANGED <<ext, erased>>

\* Mutant of ZipLen: the zip stops one pair early.
ZipLenShort(o) == Min(Len(objs[o].slots), Len(defs[objs[o].sch])) - 1

\* How far the zip of the slot vector and the registry goes.
ZipLen(o) == Min(Len(objs[o].slots), Len(defs[objs[o].sch]))

\* Mutant of DtorAt: the destructor registered last is taken for every slot.
DtorLast(O, k) == defs[O][Len(defs[O])].dtor

\* b.1 of the k-th pair of the zip: the destructor registered at position k.
DtorAt(O, k) == defs[O][k].dtor

\* .for_each(|(a, b)| (b.1)(*a)): the next pair's destructor runs on the slot.
DropStep(t) ==
    LET O == th[t].sch
        o == th[t].o
        a == objs[o].slots[th[t].i + 1]
        d == DtorAt(O, th[t].i + 1)
    IN
    /\ ~crashed
    /\ th[t].pc = "drop_iter"
    /\ th[t].i < ZipLen(o)
    /\ heap' = dropper(d, a, heap)
    /\ faults' = faults \cup dropperFaults(d, a, heap)
    /\ dropLog' = [dropLog EXCEPT ![o] = Append(@, [dtor |-> d, addr |-> a])]
    /\ th' = [th EXCEPT ![t].i = @ + 1]
    /\ lastOp' = NoOp
    /\ UNCHANGED <<defs, lock, vars, objs, crashed, ctorLog, shadow>>
    /\ UNCHANGED <<ext, erased>>

\* The zip is exhausted: the read guard is dropped, then the slot vector.
DropRet(t) ==
    LET O == th[t].sch IN
    /\ ~crashed
    /\ th[t].pc = "drop_iter"
    /\ th[t].i >= ZipLen(th[t].o)
    /\ lock' = [lock EXCEPT ![O].readers = @ \ {t}]
    /\ objs' = [objs EXCEPT ![th[t].o].st = "dropped"]
    /\ th' = [th EXCEPT ![t] = Idle]
    /\ lastOp' = NoOp
    /\ UNCHANGED <<defs, vars, heap, crashed, history>>
    /\ UNCHANGED <<ext, erased>>

\* ----------------------------------------------------------- get / get_mut
\* Thread t can call get(var) / get_mut(var) on instance o: t is not inside
\* another call, the instance is alive and not borrowed by a destructor, and
\* var is a Var<O, _> of the instance's schema O.  (Nothing runs once the
\* process has died.)
Accessible(t, o, h) ==
    /\ ~crashed /\ th[t].pc = "idle"
    /\ objs[o].st = "live" /\ h \in vars /\ h.sch = objs[o].sch

\* The index is inside the slot vector (get_unchecked's own precondition).
InBounds(o, h) == h.idx < Len(objs[o].slots)

\* Mutant of SlotAddr: the handle's index is ignored, the first slot is taken.
SlotAddrFirst(o, h) == objs[o].slots[1]

\* *self.0.get_unchecked(var.0): the address stored in the slot of the handle.
SlotAddr(o, h) == objs[o].slots[h.idx + 1]

\* get(var), Index::index: &*(slot as *const T)
Get(t, o, h) ==
    /\ Accessible(t, o, h)
    /\ InBounds(o, h)
    /\ lastOp' = [op |-> "get", o |-> o, idx |-> h.idx,
                  res |-> Deref(h.ty, SlotAddr(o, h), heap), oob |-> FALSE]
    /\ UNCHANGED <<defs, lock, vars, objs, heap, th, crashed, history>>
    /\ UNCHANGED <<ext, erased>>

\* get_mut(var), IndexMut::index_mut, and the store of v through the reference
\* it returns: obj[*VAR] = v.
Write(t, o, h, v) ==
    /\ Accessible(t, o, h)
    /\ InBounds(o, h)
    /\ heap' = [heap EXCEPT ![SlotAddr(o, h)] = [ty |-> h.ty, val |-> v]]
    /\ shadow' = [shadow EXCEPT ![o][h.idx] = [ty |-> h.ty, val |-> v]]
    /\ lastOp' = NoOp
    /\ UNCHANGED <<defs, lock, vars, objs, th, crashed, ctorLog, dropLog, faults>>
    /\ UNCHANGED <<ext, erased>>

\* Mutant of GetOob: the index is checked and the call is refused.
GetOobRefused(t, o, h) ==
    /\ Accessible(t, o, h)
    /\ ~InBounds(o, h)
    /\ FALSE
    /\ UNCHANGED vars_all

\* get / get_mut with an index past the slot vector.  get_unchecked makes no
\* check: the word behind the vector is taken for an address.  That is
\* undefined behaviour; its outcomes are a fault that ends the process, or a
\* reference to memory that holds none of the boxed values, which reads as
\* any value of T.
GetOob(t, o, h) ==
    /\ Accessible(t, o, h)
    /\ ~InBounds(o, h)
    /\ \/ /\ crashed' = TRUE
          /\ lastOp' = NoOp
       \/ /\ \E v \in Values(h.ty) :
                lastOp' = [op |-> "get", o |-> o, idx |-> h.idx,
                           res |-> [ty |-> h.ty, val |-> v], oob |-> TRUE]
          /\ UNCHANGED crashed
    /\ UNCHANGED <<defs, lock, vars, objs, heap, th, history>>
    /\ UNCHANGED <<ext, erased>>

\* The same for get_mut and the store of v through its reference: a fault, or
\* a store into memory that holds none of the boxed values.
WriteOob(t, o, h, v) ==
    /\ Accessible(t, o, h)
    /\ ~InBounds(o, h)
    /\ \/ /\ crashed' = TRUE
          /\ lastOp' = NoOp
       \/ /\ lastOp' = [NoOp EXCEPT !.op = "write", !.o = o, !.idx = h.idx,
                                    !.oob = TRUE]
          /\ UNCHANGED crashed
    /\ UNCHANGED <<defs, lock, vars, objs, heap, th, history>>
    /\ UNCHANGED <<ext, erased>>

\* ------------------------------------------------------------------ next
\* The calls a thread of the set T can start, and the steps of a call under way.
Lifecycle(T) ==
    \/ \E t \in T, O \in Schemas, U \in Types : RegCall(t, O, U)
    \/ \E t \in T : RegLock(t)
    \/ \E t \in T : RegLen(t)
    \/ \E t \in T : RegPush(t)
    \/ \E t \in T, O \in Schemas : NewCall(t, O)
    \/ \E t \in T, O \in Schemas : DefaultCall(t, O)
    \/ \E t \in T : NewLock(t)
    \/ \E t \in T : NewCtor(t)
    \/ \E t \in T : NewRet(t)
    \/ \E t \in T, o \in ObjIds : DropCall(t, o)
    \/ \E t \in T : DropLock(t)
    \/ \E t \in T : DropStep(t)
    \/ \E t \in T : DropRet(t)

\* The field accesses a thread of the set T can make.
Access(T) ==
    \/ \E t \in T, o \in ObjIds, h \in vars : Get(t, o, h)
    \/ \E t \in T, o \in ObjIds, h \in vars : GetOob(t, o, h)
    \/ \E t \in T, o \in ObjIds, h \in vars :
            \E v \in Values(h.ty) : Write(t, o, h, v)
    \/ \E t \in T, o \in ObjIds, h \in vars :
            \E v \in Values(h.ty) : WriteOob(t, o, h, v)

\* Every thread may call into the crate at any time.
Next == Lifecycle(Threads) \/ Access(Threads)

Spec == Init /\ [][Next]_vars_all

\* A single-threaded program: one thread makes every call.
SeqThreads == {1}

SeqNext == Lifecycle(SeqThreads) \/ Access(SeqThreads)

SeqSpec == Init /\ [][SeqNext]_vars_all

\* All threads register, construct and destroy concurrently; no field is
\* accessed (the slots keep their default values).
ConcNext == Lifecycle(Threads)

ConcSpec == Init /\ [][ConcNext]_vars_all

\* The usage discipline the static initialisers (#[static_init::dynamic]) give:
\* every registration on a schema is over before the construction of an
\* instance of it starts.
DiscRegCall(t, O, U) == ~InUse(O) /\ RegCall(t, O, U)
DiscNewCall(t, O) == Registering(O) = {} /\ NewCall(t, O)
DiscDefaultCall(t, O) == DiscNewCall(t, O)

DiscNext ==
    \/ \E t \in Threads, O \in Schemas, U \in Types : DiscRegCall(t, O, U)
    \/ \E t \in Threads : RegLock(t)
    \/ \E t \in Threads : RegLen(t)
    \/ \E t \in Threads : RegPush(t)
    \/ \E t \in Threads, O \in Schemas : DiscNewCall(t, O)
    \/ \E t \in Threads, O \in Schemas : DiscDefaultCall(t, O)
    \/ \E t \in Threads : NewLock(t)
    \/ \E t \in Threads : NewCtor(t)
    \/ \E t \in Threads : NewRet(t)
    \/ \E t \in Threads, o \in ObjIds : DropCall(t, o)
    \/ \E t \in Threads : DropLock(t)
    \/ \E t \in Threads : DropStep(t)
    \/ \E t \in Threads : DropRet(t)

\* The steps of a call under way in thread t.
ThreadStep(t) ==
    \/ RegLock(t) \/ RegLen(t) \/ RegPush(t)
    \/ NewLock(t) \/ NewCtor(t) \/ NewRet(t)
    \/ DropLock(t) \/ DropStep(t) \/ DropRet(t)

\* The scheduler runs every thread that can take a step.
FairSpec ==
    /\ Init
    /\ [][DiscNext]_vars_all
    /\ \A t \in Threads : WF_vars_all(ThreadStep(t))

\* The disciplined calls and steps of the threads of the set T.
DiscLifecycle(T) ==
    \/ \E t \in T, O \in Schemas, U \in Types : DiscRegCall(t, O, U)
    \/ \E t \in T : RegLock(t)
    \/ \E t \in T : RegLen(t)
    \/ \E t \in T : RegPush(t)
    \/ \E t \in T, O \in Schemas : DiscNewCall(t, O)
    \/ \E t \in T, O \in Schemas : DiscDefaultCall(t, O)
    \/ \E t \in T : NewLock(t)
    \/ \E t \in T : NewCtor(t)
    \/ \E t \in T : NewRet(t)
    \/ \E t \in T, o \in ObjIds : DropCall(t, o)
    \/ \E t \in T : DropLock(t)
    \/ \E t \in T : DropStep(t)
    \/ \E t \in T : DropRet(t)

\* The in-bounds field accesses of the threads of the set T.
InBoundsAccess(T) ==
    \/ \E t \in T, o \in ObjIds, h \in vars : Get(t, o, h)
    \/ \E t \in T, o \in ObjIds, h \in vars :
            \E v \in Values(h.ty) : Write(t, o, h, v)

\* A single-threaded program under the same discipline that also reads and
\* writes the fields of its instances.  (An access past the slot vector is not
\* among its steps: the discipline is claimed to rule it out.)
DiscUseNext == DiscLifecycle(SeqThreads) \/ InBoundsAccess(SeqThreads)

DiscUseSpec == Init /\ [][DiscUseNext]_vars_all

\* ---------------------------------------------- concurrent_access (test)
\* COUNTER: the handle of the numeric slot the workers add to.
COUNTER == Var("A", "i32", 1)

\* The instance the test shares: Arc::new(RwLock::new(ExtObj::<TestObj>::new()))
SharedObj == 1

\* The state in which the test starts its workers: the static initialisers
\* have registered FOO and COUNTER on the schema, and the test has constructed
\* the instance it shares.
CounterInit ==
    /\ defs = [O \in Schemas |-> IF O = "A" THEN <<Entry("i32"), Entry("i32")>> ELSE <<>>]
    /\ lock = [O \in Schemas |-> [writer |-> 0, readers |-> {}]]
    /\ vars = {Var("A", "i32", 0), COUNTER}
    /\ objs = [o \in ObjIds |->
                 IF o = SharedObj
                 THEN [st |-> "live", sch |-> "A", slots |-> <<1, 2>>, born |-> 2,
                       known |-> {Var("A", "i32", 0), COUNTER}]
                 ELSE NoObj]
    /\ heap = [a \in Addrs |-> IF a \in {1, 2} THEN init_default("i32") ELSE FreeCell]
    /\ th = [t \in Threads |-> Idle]
    /\ ctorLog = [o \in ObjIds |->
                    IF o = SharedObj
                    THEN <<[ctor |-> "i32", addr |-> 1], [ctor |-> "i32", addr |-> 2]>>
                    ELSE <<>>]
    /\ dropLog = [o \in ObjIds |-> <<>>]
    /\ shadow = [o \in ObjIds |-> [k \in SlotIdx |-> FreeCell]]
    /\ lastOp = NoOp
    /\ crashed = FALSE
    /\ faults = {}
    /\ extLock = {}
    /\ wk = [w \in Workers |-> WorkerIdle]
    /\ mainw = MainIdle
    /\ store = EmptyMap
    /\ cells = [c \in CellIds |-> NoCell]
    /\ ret = NoRet
    /\ nmade = 0
    /\ vidAt = [a \in Addrs |-> 0]
    /\ dropCnt = [n \in ValIds |-> 0]
    /\ held = {}
    /\ debug = FALSE

core == <<defs, lock, vars, objs, th, ctorLog, dropLog, shadow, lastOp, crashed, faults>>

\* fetch_add(i, ..): worker i adds i.
Amount(w) == w

\* Mutant of CanLockExt: the lock lets a worker in while another holds it.
CanLockExtAlways == TRUE

\* o.write() succeeds: nobody holds the lock around the instance.
CanLockExt == extLock = {}

\* for i in 0..4 { handles.push(thread::spawn(..)) }: the next worker starts;
\* after the last one the main thread goes on to join them.
Spawn ==
    /\ mainw.pc = "spawn"
    /\ wk' = [wk EXCEPT ![mainw.i].pc = "start"]
    /\ mainw' = IF mainw.i + 1 = NumWorkers
                THEN [mainw EXCEPT !.pc = "join", !.i = 0]
                ELSE [mainw EXCEPT !.i = @ + 1]
    /\ UNCHANGED <<core, heap, extLock, erased>>

\* let g = o.write().unwrap();
WLock(w) ==
    /\ wk[w].pc = "start"
    /\ CanLockExt
    /\ extLock' = extLock \cup {w}
    /\ wk' = [wk EXCEPT ![w].pc = "locked"]
    /\ UNCHANGED <<core, heap, mainw, erased>>

\* g[*COUNTER].fetch_add(i, ..), first half: the slot's value is read through
\* the handle.  (The addition is split into its load and its store: the lock,
\* not the atomic, is what keeps the two together.)
WLoad(w) ==
    /\ wk[w].pc = "locked"
    /\ wk' = [wk EXCEPT ![w].pc = "loaded",
                        ![w].tmp = Deref("i32", SlotAddr(SharedObj, COUNTER), heap).val]
    /\ UNCHANGED <<core, heap, extLock, mainw, erased>>

\* second half: the sum is stored through the handle.
WStore(w) ==
    /\ wk[w].pc = "loaded"
    /\ heap' = [heap EXCEPT ![SlotAddr(SharedObj, COUNTER)] =
                   [ty |-> "i32", val |-> wk[w].tmp + Amount(w)]]
    /\ wk' = [wk EXCEPT ![w].pc = "stored"]
    /\ UNCHANGED <<core, extLock, mainw, erased>>

\* The guard g goes out of scope and the worker ends.
WUnlock(w) ==
    /\ wk[w].pc = "stored"
    /\ extLock' = extLock \ {w}
    /\ wk' = [wk EXCEPT ![w].pc = "done"]
    /\ UNCHANGED <<core, heap, mainw, erased>>

\* for h in handles { h.join().unwrap() }
Join ==
    /\ mainw.pc = "join"
    /\ wk[mainw.i].pc = "done"
    /\ mainw' = IF mainw.i + 1 = NumWorkers
                THEN [mainw EXCEPT !.pc = "read", !.i = 0]
                ELSE [mainw EXCEPT !.i = @ + 1]
    /\ UNCHANGED <<core, heap, extLock, wk, erased>>

\* let total = o.read().unwrap()[*COUNTER].load(..)
ReadTotal ==
    /\ mainw.pc = "read"
    /\ extLock = {}
    /\ mainw' = [mainw EXCEPT !.pc = "done",
                              !.total = Deref("i32", SlotAddr(SharedObj, COUNTER), heap).val]
    /\ UNCHANGED <<core, heap, extLock, wk, erased>>

CounterNext ==
    \/ Spawn
    \/ \E w \in Workers : WLock(w)
    \/ \E w \in Workers : WLoad(w)
    \/ \E w \in Workers : WStore(w)
    \/ \E w \in Workers : WUnlock(w)
    \/ Join
    \/ ReadTotal

CounterSpec == CounterInit /\ [][CounterNext]_vars_all

\* ------------------------------------------------------ ObjInner (obj.rs)
\* The part of memory the erased containers act on.
Mem == [heap |-> heap, vidAt |-> vidAt, dropCnt |-> dropCnt, faults |-> faults]

\* A box can still be allocated (allocation failure aborts the process).
HasRoom(hp) == \E a \in Addrs : ~IsLive(hp, a)

\* Mutant of BoxVal: a default value is boxed instead of val.
BoxDefault(m, T, v, n) ==
    [m EXCEPT !.heap[BoxNew(m.heap)] = [ty |-> T, val |-> 0],
              !.vidAt[BoxNew(m.heap)] = n]

\* Box::into_raw(Box::new(val)): val, whose serial number is n, is moved to a
\* fresh allocation.
BoxVal(m, T, v, n) ==
    [m EXCEPT !.heap[BoxNew(m.heap)] = [ty |-> T, val |-> v],
              !.vidAt[BoxNew(m.heap)] = n]

\* Mutant of ObjInnerNew: the cell is created without its destructor.
ObjInnerNoDropper(T, ptr) == [dropper |-> "none", ptr |-> ptr]

\* ObjInner::new::<T>: the destructor of T is captured with the address.
ObjInnerNew(T, ptr) == [dropper |-> T, ptr |-> ptr]

\* The destructor of the value at ptr runs (the value is destroyed).
RunDtor(m, ptr) ==
    IF m.vidAt[ptr] \in ValIds
    THEN [m EXCEPT !.dropCnt[m.vidAt[ptr]] = @ + 1]
    ELSE m

\* The captured closure |ptr| { let _ = Box::from_raw(ptr as *mut T); } is
\* called: the value is destroyed and its allocation freed.
CallDropper(m, T, ptr) ==
    [RunDtor(m, ptr) EXCEPT !.heap = dropper(T, ptr, m.heap),
                            !.faults = @ \cup dropperFaults(T, ptr, m.heap)]

\* Mutant of InnerDrop: the destructor is called whether or not it was taken.
InnerDropAlways(m, c) == CallDropper(m, m.heap[c.ptr].ty, c.ptr)

\* Drop for ObjInner: if let Some(dropper) = self.dropper.take() { dropper(self.ptr) }
InnerDrop(m, c) ==
    IF c.dropper # "none" THEN CallDropper(m, c.dropper, c.ptr) ELSE m

\* Mutant of InnerGet: the reference is to a default value, not to the box.
InnerGetDefault(m, c, T) == [ty |-> T, val |-> 0]

\* get_unchecked::<T> / get_unchecked_mut::<T>: &*(self.ptr as *const T)
InnerGet(m, c, T) == Deref(T, c.ptr, m.heap)

\* Mutant of InnerIntoInner: the destructor stays armed in the consumed cell.
InnerIntoInnerArmed(c) == c

\* into_inner_unchecked, first line: self.dropper = None
InnerIntoInner(c) == [c EXCEPT !.dropper = "none"]

\* Mutant of Unbox: the value moved out is destroyed with its box.
UnboxDestroys(m, T, ptr) ==
    [RunDtor(m, ptr) EXCEPT !.heap = dropper(T, ptr, m.heap),
                            !.faults = @ \cup dropperFaults(T, ptr, m.heap)]

\* *Box::from_raw(self.ptr as *mut T): the value is moved out of the box and
\* the allocation freed; the value's destructor does not run.
Unbox(m, T, ptr) ==
    [m EXCEPT !.heap = dropper(T, ptr, m.heap),
              !.faults = @ \cup dropperFaults(T, ptr, m.heap)]

\* The value a caller owns after it was moved out of the box at ptr.
Owned(m, T, ptr) == [vid |-> m.vidAt[ptr], ty |-> T, val |-> Deref(T, ptr, m.heap).val]

\* mem' = m
SetMem(m) ==
    /\ heap' = m.heap
    /\ vidAt' = m.vidAt
    /\ dropCnt' = m.dropCnt
    /\ faults' = m.faults

\* What the erased containers never touch.
rest == <<defs, lock, vars, objs, th, ctorLog, dropLog, shadow, lastOp, crashed, ext, debug>>

\* --------------------------------------------------- TyStore (ty_store.rs)
\* TypeId::of::<T>()
TypeIdOf(T) == T

\* self.0.contains_key(&id): the map has an entry for T
Has(T) == TypeIdOf(T) \in DOMAIN store

\* Mutant of MapPut: the new entry replaces the whole map.
MapPutOnly(m, k, c) == [x \in {k} |-> c]

\* The map with the entry of key k set to c / without the entry of key k.
MapPut(m, k, c) == [x \in DOMAIN m \cup {k} |-> IF x = k THEN c ELSE m[x]]
MapRemove(m, k) == [x \in DOMAIN m \ {k} |-> m[x]]

\* store.get::<T>(): self.0.get(&id).map(|o| o.get_unchecked())
TsGet(T) ==
    /\ ret' = IF Has(T)
              THEN Ret("get", T, TRUE, InnerGet(Mem, store[TypeIdOf(T)], T).val, FALSE, 0)
              ELSE Ret("get", T, FALSE, 0, FALSE, 0)
    /\ UNCHANGED <<rest, heap, vidAt, dropCnt, faults, store, cells, nmade, held>>

\* store.get_mut::<T>(): Some(o.get_unchecked_mut()) or None
TsGetMut(T) ==
    /\ ret' = IF Has(T)
              THEN Ret("get_mut", T, TRUE, InnerGet(Mem, store[TypeIdOf(T)], T).val, FALSE, 0)
              ELSE Ret("get_mut", T, FALSE, 0, FALSE, 0)
    /\ UNCHANGED <<rest, heap, vidAt, dropCnt, faults, store, cells, nmade, held>>

\* if let Some(r) = store.get_mut::<T>() { *r = v }: the value of the entry is
\* changed in place through the reference.
TsSet(T, v) ==
    /\ Has(T)
    /\ heap' = [heap EXCEPT ![store[TypeIdOf(T)].ptr] = [ty |-> T, val |-> v]]
    /\ ret' = Ret("set", T, TRUE, v, FALSE, 0)
    /\ UNCHANGED <<rest, vidAt, dropCnt, faults, store, cells, nmade, held>>

\* Mutant of InitNeeded: the initialiser is called whether or not T is there.
InitAlways(T) == TRUE

\* entry(id).or_insert_with(..): the closure runs when the entry is vacant.
InitNeeded(T) == ~Has(T)

\* store.get_mut_or_init::<T, _>(|| v):
\* self.0.entry(id).or_insert_with(|| ObjInner::new(init())), get_unchecked_mut
TsGetMutOrInit(T, v) ==
    /\ nmade < MaxVals
    /\ HasRoom(heap)
    /\ IF InitNeeded(T)
       THEN /\ nmade' = nmade + 1
            /\ SetMem(BoxVal(Mem, T, v, nmade + 1))
            /\ store' = MapPut(store, TypeIdOf(T), ObjInnerNew(T, BoxNew(heap)))
            /\ ret' = Ret("get_mut_or_init", T, TRUE, v, FALSE, 1)
       ELSE /\ ret' = Ret("get_mut_or_init", T, TRUE,
                          InnerGet(Mem, store[TypeIdOf(T)], T).val, FALSE, 0)
            /\ UNCHANGED <<nmade, heap, vidAt, dropCnt, faults, store>>
    /\ UNCHANGED <<rest, cells, held>>

\* Mutant of Vacant: insert takes every entry for vacant and overwrites it.
VacantAlways(T) == TRUE

\* match self.0.entry(id): Entry::Vacant
Vacant(T) == ~Has(T)

\* store.insert::<T>(v): the caller's value v is value number nmade + 1.
\*   Entry::Vacant(e)   => (e.insert(ObjInner::new(val)), true)
\*   Entry::Occupied(o) => (o.into_mut(), false), and val, which was never
\*                         moved out of the parameter, is dropped on return.
TsInsert(T, v) ==
    /\ nmade < MaxVals
    /\ HasRoom(heap)
    /\ nmade' = nmade + 1
    /\ IF Vacant(T)
       THEN /\ SetMem(BoxVal(Mem, T, v, nmade + 1))
            /\ store' = MapPut(store, TypeIdOf(T), ObjInnerNew(T, BoxNew(heap)))
            /\ ret' = Ret("insert", T, TRUE, v, TRUE, 0)
       ELSE /\ dropCnt' = [dropCnt EXCEPT ![nmade + 1] = @ + 1]
            /\ ret' = Ret("insert", T, TRUE,
                          InnerGet(Mem, store[TypeIdOf(T)], T).val, FALSE, 0)
            /\ UNCHANGED <<heap, vidAt, faults, store>>
    /\ UNCHANGED <<rest, cells, held>>

\* Mutant of TakeRemoves: take leaves the entry in the map.
TakeKeeps(m, k) == m

\* self.0.remove(&id)
TakeRemoves(m, k) == MapRemove(m, k)

\* store.take::<T>(): self.0.remove(&id).map(|v| v.into_inner_unchecked()).
\* The removed ObjInner is consumed: its destructor is disarmed, the value is
\* moved out of its box to the caller, and the ObjInner is dropped.
TsTake(T) ==
    /\ IF Has(T)
       THEN LET c == store[TypeIdOf(T)] IN
            /\ store' = TakeRemoves(store, TypeIdOf(T))
            /\ SetMem(InnerDrop(Unbox(Mem, T, c.ptr), InnerIntoInner(c)))
            /\ held' = held \cup {Owned(Mem, T, c.ptr)}
            /\ ret' = Ret("take", T, TRUE, InnerGet(Mem, c, T).val, FALSE, 0)
       ELSE /\ ret' = Ret("take", T, FALSE, 0, FALSE, 0)
            /\ UNCHANGED <<heap, vidAt, dropCnt, faults, store, held>>
    /\ UNCHANGED <<rest, cells, nmade>>

RECURSIVE DropEntries(_, _)
\* The entries of the map m are dropped one after the other.
DropEntries(mem, m) ==
    IF DOMAIN m = {} THEN mem
    ELSE LET k == CHOOSE x \in DOMAIN m : TRUE
         IN DropEntries(InnerDrop(mem, m[k]), MapRemove(m, k))

\* store.clear(): self.0.clear() drops every ObjInner of the map.
TsClear ==
    /\ SetMem(DropEntries(Mem, store))
    /\ store' = EmptyMap
    /\ ret' = Ret("clear", "-", FALSE, 0, FALSE, 0)
    /\ UNCHANGED <<rest, cells, nmade, held>>

\* A value the caller owns goes out of scope: its destructor runs.
CallerDrop(n) ==
    /\ \E h \in held :
        /\ h.vid = n
        /\ held' = held \ {h}
    /\ dropCnt' = [dropCnt EXCEPT ![n] = @ + 1]
    /\ ret' = NoRet
    /\ UNCHANGED <<rest, heap, vidAt, faults, store, cells, nmade>>

\* A program that owns one TyStore and calls its methods in any order.
StoreNext ==
    \/ \E T \in Types : TsGet(T)
    \/ \E T \in Types : TsGetMut(T)
    \/ \E T \in Types : \E v \in Values(T) : TsSet(T, v)
    \/ \E T \in Types : \E v \in Values(T) : TsGetMutOrInit(T, v)
    \/ \E T \in Types : \E v \in Values(T) : TsInsert(T, v)
    \/ \E T \in Types : TsTake(T)
    \/ TsClear
    \/ \E n \in ValIds : CallerDrop(n)

StoreSpec == Init /\ [][StoreNext]_vars_all

\* The store goes out of scope.  TyStore has no Drop of its own: its map is
\* dropped, and with it every ObjInner.  (A program that goes on uses a new
\* store, TyStore::new(), which is the empty map again.)
TsDropStore ==
    /\ SetMem(DropEntries(Mem, store))
    /\ store' = EmptyMap
    /\ ret' = Ret("drop_store", "-", FALSE, 0, FALSE, 0)
    /\ UNCHANGED <<rest, cells, nmade, held>>

\* A program that uses TyStores and lets them go out of scope.
StoreLifeNext == StoreNext \/ TsDropStore

StoreLifeSpec == Init /\ [][StoreLifeNext]_vars_all

\* ------------------------------------- erased cells (obj.rs, dynobj.rs)
\* The cell types: ObjInner, its wrappers UnsafeObj and Obj, and DynObj.
Kinds == {"ObjInner", "UnsafeObj", "Obj", "DynObj"}

\* The kinds whose calls take the caller's word for the type.
Unchecked == {"UnsafeObj", "DynObj"}

\* Obj stores tid: TypeId::of::<T>() beside the inner cell; UnsafeObj and
\* DynObj have the field under cfg(debug_assertions) only; ObjInner never.
TagOf(K, T) ==
    IF K = "Obj" \/ (debug /\ K \in Unchecked) THEN TypeIdOf(T) ELSE "-"

\* DynObj's drop(&mut self): (self.drop)(self.data)
DynDrop(m, c) == CallDropper(m, c.dropper, c.ptr)

\* std::mem::forget(self): the DynObj goes away without its Drop running.
Forget(m, c) == m

\* DynObj::new::<T>: Self { data: b, drop: dropper::<T>, .. }
DynObjNew(T, ptr) == [dropper |-> T, ptr |-> ptr]

\* The address and destructor a cell of kind K created for a T at ptr keeps.
NewInner(K, T, ptr) == IF K = "DynObj" THEN DynObjNew(T, ptr) ELSE ObjInnerNew(T, ptr)

\* K::new::<T>(v): the value is moved to the heap; the cell keeps the address
\* and the destructor of T.  (vid and cur are history: the value's serial
\* number and the value the cell was given last.)
CellNew(c, K, T, v) ==
    /\ cells[c].st = "none"
    /\ \A d \in CellIds : cells[d].st = "none" => c <= d
    /\ nmade < MaxVals
    /\ HasRoom(heap)
    /\ nmade' = nmade + 1
    /\ SetMem(BoxVal(Mem, T, v, nmade + 1))
    /\ cells' = [cells EXCEPT ![c] =
                    [st |-> "live", kind |-> K, dropper |-> NewInner(K, T, BoxNew(heap)).dropper,
                     ptr |-> NewInner(K, T, BoxNew(heap)).ptr, tid |-> TagOf(K, T),
                     vid |-> nmade + 1, cur |-> v]]
    /\ ret' = Ret("new", T, TRUE, v, FALSE, 0)
    /\ UNCHANGED <<rest, store, held>>

\* The inner ObjInner of the cell c.
InnerOf(c) == [dropper |-> c.dropper, ptr |-> c.ptr]

\* The cell was created with type T (the safety condition of the unchecked
\* calls; Obj's try_ calls compare T with tid themselves).
SameType(c, T) == c.dropper = T

\* The reference get::<T> / get_mut::<T> returns.
\*   DynObj:  &*(self.data as *const T)
\*   others:  self.inner.get_unchecked()
CellRef(m, c, T) ==
    IF c.kind = "DynObj" THEN Deref(T, c.ptr, m.heap) ELSE InnerGet(m, InnerOf(c), T)

\* get_unchecked::<T>() / try_get::<T>() / DynObj::get::<T>() with the cell's type
CellGet(c, T) ==
    /\ cells[c].st = "live"
    /\ SameType(cells[c], T)
    /\ ret' = Ret("get", T, TRUE, CellRef(Mem, cells[c], T).val, FALSE, 0)
    /\ UNCHANGED <<rest, heap, vidAt, dropCnt, faults, store, cells, nmade, held>>

\* *cell.get_unchecked_mut::<T>() = v (try_get_mut, DynObj::get_mut): the value
\* is changed in place through the mutable reference.
CellSet(c, T, v) ==
    /\ cells[c].st = "live"
    /\ SameType(cells[c], T)
    /\ heap' = [heap EXCEPT ![cells[c].ptr] = [ty |-> T, val |-> v]]
    /\ cells' = [cells EXCEPT ![c].cur = v]
    /\ ret' = Ret("set", T, TRUE, v, FALSE, 0)
    /\ UNCHANGED <<rest, vidAt, dropCnt, faults, store, nmade, held>>

\* The memory after the cell c was consumed with type T.
\*   DynObj:  let out = *Box::from_raw(self.data as *mut T); mem::forget(self)
\*   others:  self.dropper = None; *Box::from_raw(self.ptr as *mut T), and
\*            self is dropped when into_inner_unchecked returns.
Consume(m, c, T) ==
    IF c.kind = "DynObj"
    THEN Forget(Unbox(m, T, c.ptr), c)
    ELSE InnerDrop(Unbox(m, T, c.ptr), InnerIntoInner(InnerOf(c)))

\* into_inner_unchecked::<T>() / try_into_inner::<T>() / DynObj::into_inner::<T>()
\* with the cell's type: the value is handed to the caller.
CellIntoInner(c, T) ==
    /\ cells[c].st = "live"
    /\ SameType(cells[c], T)
    /\ SetMem(Consume(Mem, cells[c], T))
    /\ held' = held \cup {Owned(Mem, T, cells[c].ptr)}
    /\ cells' = [cells EXCEPT ![c].st = "consumed"]
    /\ ret' = Ret("into_inner", T, TRUE, CellRef(Mem, cells[c], T).val, FALSE, 0)
    /\ UNCHANGED <<rest, store, nmade>>

\* The cell goes out of scope: Drop for DynObj, or Drop for ObjInner (the
\* wrappers have no Drop of their own, their field inner is dropped).
CellDrop(c) ==
    /\ cells[c].st = "live"
    /\ SetMem(IF cells[c].kind = "DynObj"
              THEN DynDrop(Mem, cells[c])
              ELSE InnerDrop(Mem, InnerOf(cells[c])))
    /\ cells' = [cells EXCEPT ![c].st = "dropped"]
    /\ ret' = Ret("drop", "-", FALSE, 0, FALSE, 0)
    /\ UNCHANGED <<rest, store, nmade, held>>

\* A program that creates erased cells, borrows them, and consumes or drops them.
CellNext ==
    \/ \E c \in CellIds, K \in Kinds, T \in Types : \E v \in Values(T) : CellNew(c, K, T, v)
    \/ \E c \in CellIds, T \in Types : CellGet(c, T)
    \/ \E c \in CellIds, T \in Types : \E v \in Values(T) : CellSet(c, T, v)
    \/ \E c \in CellIds, T \in Types : CellIntoInner(c, T)
    \/ \E c \in CellIds : CellDrop(c)
    \/ \E n \in ValIds : CallerDrop(n)

CellSpec == Init /\ [][CellNext]_vars_all

\* --------------------------------- unchecked cells asked for another type
\* Mutant of TagAssert: the assertion is compiled out of every build.
TagAssertOff(c, T) == TRUE

\* #[cfg(debug_assertions)] debug_assert_eq!(TypeId::of::<T>(), self.tid)
\* passes: there is no assertion in the build, or the tag is T's.
TagAssert(c, T) == debug => c.tid = TypeIdOf(T)

\* The assertion failed: the call panics and returns nothing.
Panic(T) == Ret("panic", T, FALSE, 0, FALSE, 0)

\* get::<U>() / get_unchecked::<U>() (op = "get") or get_mut::<U>() /
\* get_unchecked_mut::<U>() (op = "get_mut") on a cell created with another
\* type.  With the assertion the call panics.  Without it the pointer is cast
\* and a &U (&mut U) to the box returned: undefined behaviour, and x is a value
\* a read through the reference may give.
CellGetAs(c, U, op, x) ==
    /\ cells[c].st = "live"
    /\ cells[c].kind \in Unchecked
    /\ ~SameType(cells[c], U)
    /\ ret' = IF TagAssert(cells[c], U)
              THEN Ret(op, CellRef(Mem, cells[c], U).ty, TRUE, x, FALSE, 0)
              ELSE Panic(U)
    /\ UNCHANGED <<rest, heap, vidAt, dropCnt, faults, store, cells, nmade, held>>

\* into_inner::<U>() / into_inner_unchecked::<U>() on a cell created with
\* another type.  With the assertion the call panics, and self, which the call
\* owns, is dropped while the panic unwinds.  Without it the box is read and
\* freed as a Box<U> (undefined behaviour; x is a value the read may give) and
\* the caller owns a U.
CellIntoInnerAs(c, U, x) ==
    /\ cells[c].st = "live"
    /\ cells[c].kind \in Unchecked
    /\ ~SameType(cells[c], U)
    /\ IF TagAssert(cells[c], U)
       THEN /\ SetMem(Consume(Mem, cells[c], U))
            /\ held' = held \cup {[Owned(Mem, U, cells[c].ptr) EXCEPT !.val = x]}
            /\ cells' = [cells EXCEPT ![c].st = "consumed"]
            /\ ret' = Ret("into_inner", U, TRUE, x, FALSE, 0)
       ELSE /\ SetMem(IF cells[c].kind = "DynObj"
                      THEN DynDrop(Mem, cells[c])
                      ELSE InnerDrop(Mem, InnerOf(cells[c])))
            /\ cells' = [cells EXCEPT ![c].st = "dropped"]
            /\ ret' = Panic(U)
            /\ UNCHANGED held
    /\ UNCHANGED <<rest, store, nmade>>

\* A program, built either way, that also breaks the unchecked cells' contract.
UncheckedNext ==
    \/ CellNext
    \/ \E c \in CellIds, U \in Types, op \in {"get", "get_mut"} :
          \E x \in Values(U) : CellGetAs(c, U, op, x)
    \/ \E c \in CellIds, U \in Types : \E x \in Values(U) : CellIntoInnerAs(c, U, x)

UncheckedSpec == BuildInit /\ [][UncheckedNext]_vars_all

\* ------------------------------------------------ the checked cell (obj.rs)
\* Mutant of ObjTypeOk: the comparison with the tag always succeeds.
ObjTypeOkAlways(c, T) == TRUE

\* if TypeId::of::<T>() == self.tid
ObjTypeOk(c, T) == TypeIdOf(T) = c.tid

\* obj.try_get::<T>(): Some(self.inner.get_unchecked::<T>()) when the tag is
\* T's, None otherwise.
ObjTryGet(c, T) ==
    /\ cells[c].st = "live"
    /\ cells[c].kind = "Obj"
    /\ ret' = IF ObjTypeOk(cells[c], T)
              THEN Ret("try_get", T, TRUE, InnerGet(Mem, InnerOf(cells[c]), T).val, FALSE, 0)
              ELSE Ret("try_get", T, FALSE, 0, FALSE, 0)
    /\ UNCHANGED <<rest, heap, vidAt, dropCnt, faults, store, cells, nmade, held>>

\* if let Some(r) = obj.try_get_mut::<T>() { *r = v }: the value is changed
\* through the mutable reference when the tag is T's; None otherwise.
ObjTryGetMut(c, T, v) ==
    /\ cells[c].st = "live"
    /\ cells[c].kind = "Obj"
    /\ IF ObjTypeOk(cells[c], T)
       THEN /\ heap' = [heap EXCEPT ![cells[c].ptr] = [ty |-> T, val |-> v]]
            /\ cells' = [cells EXCEPT ![c].cur = v]
            /\ ret' = Ret("try_get_mut", T, TRUE, v, FALSE, 0)
       ELSE /\ ret' = Ret("try_get_mut", T, FALSE, 0, FALSE, 0)
            /\ UNCHANGED <<heap, cells>>
    /\ UNCHANGED <<rest, vidAt, dropCnt, faults, store, nmade, held>>

\* obj.try_into_inner::<T>(): Ok(self.inner.into_inner_unchecked()) when the
\* tag is T's; otherwise Err(self): the cell is handed back as it was.
ObjTryIntoInner(c, T) ==
    /\ cells[c].st = "live"
    /\ cells[c].kind = "Obj"
    /\ IF ObjTypeOk(cells[c], T)
       THEN /\ SetMem(Consume(Mem, cells[c], T))
            /\ held' = held \cup {Owned(Mem, T, cells[c].ptr)}
            /\ cells' = [cells EXCEPT ![c].st = "consumed"]
            /\ ret' = Ret("try_into_inner", T, TRUE,
                          InnerGet(Mem, InnerOf(cells[c]), T).val, FALSE, 0)
       ELSE /\ ret' = Ret("try_into_inner", T, FALSE, 0, FALSE, 0)
            /\ UNCHANGED <<heap, vidAt, dropCnt, faults, held, cells>>
    /\ UNCHANGED <<rest, store, nmade>>

\* A program that also asks checked cells for any type.
ObjNext ==
    \/ CellNext
    \/ \E c \in CellIds, T \in Types : ObjTryGet(c, T)
    \/ \E c \in CellIds, T \in Types : \E v \in Values(T) : ObjTryGetMut(c, T, v)
    \/ \E c \in CellIds, T \in Types : ObjTryIntoInner(c, T)

ObjSpec == Init /\ [][ObjNext]_vars_all

\* ================================================================ claims
\* The instances that have been constructed (their slot vector is complete).
Built == {o \in ObjIds : objs[o].st \in {"live", "dropping", "dropped"}}

\* The destructor calls dropping o must make: for each slot in slot order, the
\* destructor registered at that index, on the address the slot holds.
DropExpected(o) ==
    [k \in 1..Len(objs[o].slots) |->
        [dtor |-> defs[objs[o].sch][k].dtor, addr |-> objs[o].slots[k]]]

\* C1: dropping an instance runs, for every slot it holds, the destructor
\* registered for that slot exactly once on the slot's own address, in slot
\* order: while the drop is under way the calls made are a prefix of that list,
\* when it is over they are the whole list, and no box is freed twice.
C1_DropRunsEachDestructorOnce ==
    /\ "double_free" \notin faults
    /\ \A o \in ObjIds :
        /\ objs[o].st = "dropped" => dropLog[o] = DropExpected(o)
        /\ objs[o].st = "dropping" =>
              /\ Len(dropLog[o]) <= Len(objs[o].slots)
              /\ dropLog[o] = SubSeq(DropExpected(o), 1, Len(dropLog[o]))
        /\ objs[o].st \in {"none", "building", "live"} => dropLog[o] = <<>>

\* An instance with two slots of different types was written to and dropped.
C1_Witness ==
    \E o \in ObjIds :
        /\ objs[o].st = "dropped"
        /\ Len(objs[o].slots) = 2
        /\ Len(dropLog[o]) = 2
        /\ dropLog[o][1].dtor # dropLog[o][2].dtor

\* C2: for every handle Var<O, T> with index i, entry i of O's registry holds
\* the constructor and the destructor of T, and slot i of every instance of O
\* that has a slot i holds a live value of type T.
C2_HandleDenotesSlotOfItsType ==
    \A h \in vars :
        /\ h.idx < Len(defs[h.sch])
        /\ defs[h.sch][h.idx + 1].ctor = h.ty
        /\ defs[h.sch][h.idx + 1].dtor = h.ty
        /\ \A o \in ObjIds :
              (objs[o].st \in {"building", "live"} /\ objs[o].sch = h.sch
                  /\ h.idx < Len(objs[o].slots)) =>
                    /\ IsLive(heap, objs[o].slots[h.idx + 1])
                    /\ heap[objs[o].slots[h.idx + 1]].ty = h.ty

\* A bool slot of a live instance has been written through its handle, and
\* another instance has been dropped.
C2_Witness ==
    \E o \in ObjIds, h \in vars :
        /\ objs[o].st = "live" /\ objs[o].sch = h.sch /\ h.ty = "bool"
        /\ h.idx < Len(objs[o].slots)
        /\ shadow[o][h.idx].ty = "bool"
        /\ \E p \in ObjIds : objs[p].st = "dropped"

\* The handles of o's schema registered after o was constructed.
LateHandles(o) == {h \in vars : h.sch = objs[o].sch /\ h \notin objs[o].known}

\* C3: when a slot is registered after an instance was constructed, the
\* instance's slot vector stays shorter than the registry, the new handle's
\* index is past its end, and get / get_mut with that handle is not refused:
\* a thread that is free to call (and whose process still runs) can make the
\* out-of-bounds access, and cannot make an in-bounds one.
C3_LateHandleIsOutOfBounds ==
    \A o \in ObjIds : objs[o].st = "live" => \A h \in LateHandles(o) :
        /\ Len(objs[o].slots) < Len(defs[objs[o].sch])
        /\ h.idx >= Len(objs[o].slots)
        /\ \A t \in Threads : (~crashed /\ th[t].pc = "idle") =>
              /\ ENABLED GetOob(t, o, h)
              /\ \A v \in Values(h.ty) : ENABLED WriteOob(t, o, h, v)
              /\ ~ENABLED Get(t, o, h)
              /\ \A v \in Values(h.ty) : ~ENABLED Write(t, o, h, v)

\* get was called on an instance with a handle registered after it was built
\* and returned a value read out of bounds.
C3_Witness ==
    /\ lastOp.op = "get" /\ lastOp.oob
    /\ \E h \in LateHandles(lastOp.o) : h.idx = lastOp.idx

\* C4: an instance has as many slots as its schema's registry had entries when
\* it was constructed, the number never changes afterwards and is at most the
\* registry's current length, and slot k was produced by the constructor
\* registered at index k.
C4_SlotsSnapshotRegistry ==
    /\ [](\A o \in Built :
            /\ Len(objs[o].slots) = objs[o].born
            /\ Len(objs[o].slots) <= Len(defs[objs[o].sch])
            /\ ctorLog[o] = [k \in 1..Len(objs[o].slots) |->
                  [ctor |-> defs[objs[o].sch][k].ctor, addr |-> objs[o].slots[k]]])
    /\ [][\A o \in Built : objs'[o].slots = objs[o].slots]_vars_all

\* A live instance with one slot whose schema's registry has grown to two.
C4_Witness ==
    \E o \in ObjIds :
        /\ objs[o].st = "live"
        /\ Len(objs[o].slots) = 1
        /\ Len(defs[objs[o].sch]) = 2

\* C5: a registry changes only by a registration's push, which puts exactly
\* one entry behind the existing ones and leaves the other registries alone;
\* every other step (construction, field access, destruction) leaves every
\* registry as it is.
C5_RegistryAppendOnly ==
    [][defs' # defs =>
        \E t \in Threads :
            /\ th[t].pc = "reg_push" /\ th'[t].pc = "idle"
            /\ Len(defs'[th[t].sch]) = Len(defs[th[t].sch]) + 1
            /\ SubSeq(defs'[th[t].sch], 1, Len(defs[th[t].sch])) = defs[th[t].sch]
            /\ \A P \in Schemas \ {th[t].sch} : defs'[P] = defs[P]]_vars_all

\* Both registries have entries, one has two of different types, an instance
\* was built, used and dropped.
C5_Witness ==
    /\ \E O \in Schemas : Len(defs[O]) = 2 /\ defs[O][1] # defs[O][2]
    /\ \A O \in Schemas : Len(defs[O]) >= 1
    /\ \E o \in ObjIds : objs[o].st = "dropped" /\ Len(objs[o].slots) >= 1

\* The handles registration has returned for schema O.
HandlesOf(O) == {h \in vars : h.sch = O}

\* C6: a registration returns the registry's length just before its own push
\* as the handle's index; however registrations of several threads interleave,
\* the handles of a schema have distinct indices, these are exactly 0..n-1
\* after n registrations, and each handle's index is the position of the
\* (constructor, destructor) pair pushed with it.
C6_RegistrationIndices ==
    /\ [](\A O \in Schemas :
            /\ Cardinality(HandlesOf(O)) = Len(defs[O])
            /\ {h.idx : h \in HandlesOf(O)} = 0..(Len(defs[O]) - 1)
            /\ \A h \in HandlesOf(O) : defs[O][h.idx + 1] = [ctor |-> h.ty, dtor |-> h.ty])
    /\ [][\A h \in vars' \ vars :
            /\ h.idx = Len(defs[h.sch])
            /\ Len(defs'[h.sch]) = h.idx + 1
            /\ defs'[h.sch][h.idx + 1] = [ctor |-> h.ty, dtor |-> h.ty]]_vars_all

\* One thread is about to push on a schema while the other waits for the same
\* schema's write lock, and a handle was returned before.
C6_Witness ==
    \E t \in Threads, u \in Threads :
        /\ th[t].pc = "reg_push" /\ th[u].pc = "reg_wait"
        /\ th[t].sch = th[u].sch
        /\ vars # {}

\* The default value of a slot type: 0 for i32, false (0) for bool.
DefaultOf(T) == [ty |-> T, val |-> 0]

\* The type of the slot the last get read.
LastTy == defs[objs[lastOp.o].sch][lastOp.idx + 1].ctor

\* The last call was an in-bounds get.
LastGet == lastOp.op = "get" /\ ~lastOp.oob

\* C7: a get through a slot's handle, on an instance no value was written to
\* through that handle, returns the default value of the slot's type; and the
\* construction of an instance called each registered constructor once, in slot
\* order.
C7_FreshInstanceReadsDefaults ==
    /\ (LastGet /\ shadow[lastOp.o][lastOp.idx] = FreeCell) =>
            lastOp.res = DefaultOf(LastTy)
    /\ \A o \in Built :
            /\ Len(ctorLog[o]) = objs[o].born
            /\ \A k \in 1..Len(ctorLog[o]) :
                  ctorLog[o][k].ctor = defs[objs[o].sch][k].ctor

\* The bool slot at index 1 of an instance was read before any write to it.
C7_Witness ==
    /\ LastGet /\ lastOp.idx = 1 /\ lastOp.res.ty = "bool"
    /\ shadow[lastOp.o][1] = FreeCell

\* C8: a get through a handle returns the value last written through that
\* handle on that instance, or the default when there was no such write,
\* whatever was written through other handles or to other instances.
C8_ReadReturnsLastWrite ==
    LastGet =>
        lastOp.res = IF shadow[lastOp.o][lastOp.idx] = FreeCell
                     THEN DefaultOf(LastTy)
                     ELSE shadow[lastOp.o][lastOp.idx]

\* A get returned the 1 written through its handle while the other slot of
\* the instance holds a 0 written through the other handle.
C8_Witness ==
    /\ LastGet /\ lastOp.res.val = 1
    /\ \E k \in SlotIdx \ {lastOp.idx} :
          shadow[lastOp.o][k] # FreeCell /\ shadow[lastOp.o][k].val = 0

\* What get(h) on instance o returns in the current state.
ReadVal(o, h) == Deref(h.ty, SlotAddr(o, h), heap)

\* The (instance, handle) pairs an in-bounds get can be made with.
Readable ==
    {p \in ObjIds \X vars :
        objs[p[1]].st = "live" /\ p[2].sch = objs[p[1]].sch /\ InBounds(p[1], p[2])}

\* C9: a write through a handle on an instance changes what that handle reads
\* on that instance and nothing else: every other slot of the instance, every
\* slot of every other instance of the schema and of the other schemas (same
\* index or not) reads as before, and no slot vector changes.
C9_WriteChangesOneSlot ==
    [][\A o \in ObjIds, h \in vars :
          (\E t \in Threads, v \in Values(h.ty) : Write(t, o, h, v)) =>
            /\ objs' = objs
            /\ \A p \in Readable :
                  (p[1] # o \/ p[2].idx # h.idx) =>
                      ReadVal(p[1], p[2])' = ReadVal(p[1], p[2])]_vars_all

\* Two live instances of different schemas hold different written values in
\* the slot of index 0, and one of them has a second slot.
C9_Witness ==
    \E o \in ObjIds, p \in ObjIds :
        /\ objs[o].st = "live" /\ objs[p].st = "live"
        /\ objs[o].sch # objs[p].sch
        /\ shadow[o][0] # FreeCell /\ shadow[p][0] # FreeCell
        /\ shadow[o][0].val # shadow[p][0].val
        /\ Len(objs[o].slots) = 2

\* Thread t waits for the read side of a registry's lock.
ReaderWaits(t) == th[t].pc \in {"new_wait", "drop_wait"}

\* C10: when every registration on a schema is over before an instance of it
\* is constructed, every registration, construction and destruction a thread
\* has started comes to its end, whatever the other threads do; and a thread
\* waiting for the read side can be kept waiting only by a registration that
\* holds the write side.
C10_NoDeadlockUnderDiscipline ==
    /\ [](\A t \in Threads :
            (ReaderWaits(t) /\ ~ENABLED (NewLock(t) \/ DropLock(t))) =>
                lock[th[t].sch].writer # 0)
    /\ \A t \in Threads : (th[t].pc # "idle") ~> (th[t].pc = "idle")

\* A registration waits for the write lock another registration holds, while
\* the other schema has an instance.
C10_Witness ==
    \E t \in Threads, u \in Threads :
        /\ th[t].pc = "reg_wait"
        /\ lock[th[t].sch].writer = u
        /\ \E o \in ObjIds : objs[o].st = "live"

RECURSIVE SumAmounts(_)
\* The sum of the amounts of the workers in S.
SumAmounts(S) ==
    IF S = {} THEN 0
    ELSE LET w == CHOOSE x \in S : TRUE IN Amount(w) + SumAmounts(S \ {w})

\* The value of the shared numeric slot.
CounterVal == Deref("i32", SlotAddr(SharedObj, COUNTER), heap).val

\* C11: when every worker adds its amount to the shared slot while holding the
\* lock around the instance, the total read after all workers were joined is
\* the sum of all the amounts, whatever the interleaving; and whenever the lock
\* is free the slot holds the sum of the amounts of the workers that are done.
C11_LockedIncrementsAddUp ==
    /\ mainw.pc = "done" => mainw.total = SumAmounts(Workers)
    /\ extLock = {} => CounterVal = SumAmounts({w \in Workers : wk[w].pc = "done"})

\* All workers have added their amounts and the main thread has read a total
\* that is not the slot's default.
C11_Witness ==
    /\ mainw.pc = "done" /\ mainw.total > 0
    /\ \A w \in Workers : wk[w].pc = "done"

\* The value boxed in the store's entry for T.
EntryVal(T) == heap[store[T].ptr].val

\* The serial number of the value in the store's entry for T.
EntryVid(T) == vidAt[store[T].ptr]

\* C12: insert<T>(v) on a store without an entry for T stores v and returns
\* (v, true); on a store with an entry for T it leaves the map and the entry's
\* value as they are, returns (the existing value, false), and v is not stored
\* but destroyed before the call returns.
C12_InsertKeepsExisting ==
    [][\A T \in Types : \A v \in Values(T) : TsInsert(T, v) =>
        IF T \in DOMAIN store
        THEN /\ store' = store /\ heap' = heap /\ vidAt' = vidAt
             /\ ret' = Ret("insert", T, TRUE, EntryVal(T), FALSE, 0)
             /\ dropCnt'[nmade'] = 1
        ELSE /\ DOMAIN store' = DOMAIN store \cup {T}
             /\ EntryVal(T)' = v /\ EntryVid(T)' = nmade'
             /\ ret' = Ret("insert", T, TRUE, v, TRUE, 0)
             /\ dropCnt'[nmade'] = 0]_vars_all

\* An insert was rejected: the entry was there, the value supplied was destroyed.
C12_Witness ==
    /\ ret.op = "insert" /\ ~ret.flag
    /\ ret.ty \in DOMAIN store /\ ret.val = 1
    /\ dropCnt[nmade] = 1

\* C13: take<T>() on a store with an entry for T returns Some(its value), hands
\* the value to the caller undestroyed and removes the entry, leaving the other
\* entries alone; without an entry it returns None and changes nothing; and
\* while there is no entry for T, get, get_mut and take return None, an entry
\* for T appearing only through insert or get_mut_or_init for T.
C13_TakeRemovesEntry ==
    /\ [][\A T \in Types : TsTake(T) =>
            IF T \in DOMAIN store
            THEN /\ ret' = Ret("take", T, TRUE, EntryVal(T), FALSE, 0)
                 /\ DOMAIN store' = DOMAIN store \ {T}
                 /\ \A U \in DOMAIN store' : store'[U] = store[U]
                 /\ [vid |-> EntryVid(T), ty |-> T, val |-> EntryVal(T)] \in held'
                 /\ dropCnt' = dropCnt
            ELSE /\ ret' = Ret("take", T, FALSE, 0, FALSE, 0)
                 /\ store' = store /\ heap' = heap /\ held' = held]_vars_all
    /\ [][\A T \in Types \ DOMAIN store :
            /\ (TsGet(T) \/ TsGetMut(T) \/ TsTake(T)) => ~ret'.some
            /\ T \in DOMAIN store' =>
                  ret'.op \in {"insert", "get_mut_or_init"} /\ ret'.ty = T]_vars_all

\* A take returned the value 1 to the caller while the other type's entry stays.
C13_Witness ==
    /\ ret.op = "take" /\ ret.some /\ ret.val = 1
    /\ ret.ty \notin DOMAIN store /\ DOMAIN store # {}
    /\ \E h \in held : h.ty = ret.ty /\ h.val = 1 /\ dropCnt[h.vid] = 0

\* C14: get_mut_or_init<T>(make) on a store with an entry for T returns the
\* entry's value and does not call make; without an entry it calls make once,
\* stores the result as T's entry and returns it; either way the entry for T
\* afterwards holds the value returned.
C14_GetMutOrInit ==
    [][\A T \in Types : \A v \in Values(T) : TsGetMutOrInit(T, v) =>
        /\ IF T \in DOMAIN store
           THEN /\ ret' = Ret("get_mut_or_init", T, TRUE, EntryVal(T), FALSE, 0)
                /\ store' = store /\ heap' = heap /\ nmade' = nmade
           ELSE /\ ret' = Ret("get_mut_or_init", T, TRUE, v, FALSE, 1)
                /\ DOMAIN store' = DOMAIN store \cup {T}
                /\ nmade' = nmade + 1
        /\ T \in DOMAIN store' /\ EntryVal(T)' = ret'.val]_vars_all

\* get_mut_or_init found an entry holding 1 and did not call the initialiser.
C14_Witness ==
    /\ ret.op = "get_mut_or_init" /\ ret.called = 0 /\ ret.val = 1
    /\ nmade >= 1

\* The operations of the store keyed by T.
KeyedBy(T) ==
    \/ TsGet(T) \/ TsGetMut(T) \/ TsTake(T)
    \/ \E v \in Values(T) : TsSet(T, v) \/ TsGetMutOrInit(T, v) \/ TsInsert(T, v)

\* C15: the store holds at most one value per type: every entry owns a live
\* box of its own type, different entries own different boxes, and no other
\* box is alive; and an operation keyed by one type changes neither the
\* presence nor the value of another type's entry.
C15_OneValuePerType ==
    /\ [](/\ \A T \in DOMAIN store :
                /\ IsLive(heap, store[T].ptr) /\ heap[store[T].ptr].ty = T
                /\ \A U \in DOMAIN store \ {T} : store[U].ptr # store[T].ptr
          /\ Cardinality({a \in Addrs : IsLive(heap, a)}) = Cardinality(DOMAIN store))
    /\ [][\A T \in Types : KeyedBy(T) => \A U \in Types \ {T} :
            /\ (U \in DOMAIN store') <=> (U \in DOMAIN store)
            /\ U \in DOMAIN store => (EntryVal(U)' = EntryVal(U) /\ EntryVid(U)' = EntryVid(U))
         ]_vars_all

\* Both types have an entry, with different values, the last one set in place.
C15_Witness ==
    /\ DOMAIN store = Types
    /\ EntryVal("i32") = 1 /\ EntryVal("bool") = 0
    /\ EntryVid("i32") < EntryVid("bool")
    /\ ret.op = "set"

\* C16: get<T>() and get_mut<T>() return None exactly when the store has no
\* entry for T, and Some(the entry's current value) otherwise; neither adds,
\* removes or changes an entry.
C16_GetIsNoneIffAbsent ==
    [][\A T \in Types : (TsGet(T) \/ TsGetMut(T)) =>
        /\ ret'.some <=> (T \in DOMAIN store)
        /\ T \in DOMAIN store => ret'.val = EntryVal(T)
        /\ store' = store /\ heap' = heap /\ dropCnt' = dropCnt]_vars_all

\* A get returned Some(1) from a store that lacks the other type.
C16_Witness ==
    /\ ret.op = "get" /\ ret.some /\ ret.val = 1
    /\ DOMAIN store = {ret.ty}

\* The serial numbers of the values the store holds.
StoredVids == {EntryVid(T) : T \in DOMAIN store}

\* C17: clear() leaves the store without entries: the destructor of each value
\* it held has then run exactly once and its box is freed, the values it did
\* not hold are as before, no box is freed twice; a get after it returns None
\* and an insert after it reports true.
C17_ClearDestroysAll ==
    /\ [][TsClear =>
            /\ store' = EmptyMap
            /\ \A n \in ValIds :
                  dropCnt'[n] = IF n \in StoredVids THEN 1 ELSE dropCnt[n]
            /\ \A a \in Addrs : ~IsLive(heap', a)
            /\ faults' = {}]_vars_all
    /\ [][ret.op = "clear" =>
            /\ \A T \in Types : TsGet(T) => ~ret'.some
            /\ \A T \in Types : \A v \in Values(T) : TsInsert(T, v) => ret'.flag
         ]_vars_all

\* A clear has run in a program that boxed two values in the store, and both
\* values are destroyed, each once.
C17_Witness ==
    /\ ret.op = "clear"
    /\ nmade = 2 /\ dropCnt[1] = 1 /\ dropCnt[2] = 1
    /\ \E a \in Addrs, b \in Addrs : vidAt[a] = 1 /\ vidAt[b] = 2

\* The value of serial number n is in the caller's hands.
Held(n) == \E h \in held : h.vid = n

\* C18: converting a cell back into a value with the type it was created with
\* returns the value the cell was given, hands it to the caller undestroyed,
\* and frees the box without a double free; the consumed cell never runs its
\* destructor: as long as the caller holds the value it is not destroyed, and
\* once the caller has dropped it, it has been destroyed exactly once.
C18_RoundTripNoDoubleFree ==
    /\ []("double_free" \notin faults)
    /\ [](\A c \in CellIds : cells[c].st = "consumed" =>
            dropCnt[cells[c].vid] = IF Held(cells[c].vid) THEN 0 ELSE 1)
    /\ [][\A c \in CellIds, T \in Types : CellIntoInner(c, T) =>
            /\ ret'.some /\ ret'.val = cells[c].cur
            /\ [vid |-> cells[c].vid, ty |-> T, val |-> cells[c].cur] \in held'
            /\ ~IsLive(heap', cells[c].ptr)
            /\ dropCnt' = dropCnt]_vars_all

\* An ObjInner and a DynObj were both converted back; the caller still holds
\* one of the values (a 1) and has dropped the other.
C18_Witness ==
    \E c \in CellIds, d \in CellIds :
        /\ cells[c].st = "consumed" /\ cells[c].kind = "ObjInner"
        /\ cells[d].st = "consumed" /\ cells[d].kind = "DynObj"
        /\ \E h \in held : h.val = 1
        /\ \E n \in ValIds : dropCnt[n] = 1

\* C19: a cell dropped without having been converted back has run its
\* destructor exactly once, on its own box, which is freed, whatever was read
\* or written through it before; converting a cell back runs no destructor;
\* no value is ever destroyed twice.
C19_DropRunsDestructorOnce ==
    /\ [](\A n \in ValIds : dropCnt[n] <= 1)
    /\ [](\A c \in CellIds : cells[c].st = "dropped" => dropCnt[cells[c].vid] = 1)
    /\ [][\A c \in CellIds : CellDrop(c) =>
            /\ dropCnt' = [dropCnt EXCEPT ![cells[c].vid] = 1]
            /\ heap' = [heap EXCEPT ![cells[c].ptr] = FreeCell]
            /\ faults' = faults]_vars_all
    /\ [][\A c \in CellIds, T \in Types : CellIntoInner(c, T) =>
            dropCnt'[cells[c].vid] = 0]_vars_all

\* A cell that was written to has been dropped, another has been converted back.
C19_Witness ==
    \E c \in CellIds, d \in CellIds :
        /\ cells[c].st = "dropped" /\ cells[c].cur = 1 /\ dropCnt[cells[c].vid] = 1
        /\ cells[d].st = "consumed" /\ dropCnt[cells[d].vid] = 0

\* C20: a borrow of a cell with the type it was created with yields the value
\* it was created from, or the value last written through the mutable borrow;
\* so does the final conversion back; in particular the box of a cell just
\* created holds the value it was created from.
C20_BorrowYieldsValue ==
    /\ [](ret.op = "new" => \E c \in CellIds :
            /\ cells[c].st = "live" /\ cells[c].vid = nmade
            /\ Deref(ret.ty, cells[c].ptr, heap).val = ret.val)
    /\ [][\A c \in CellIds, T \in Types :
            (CellGet(c, T) \/ CellIntoInner(c, T)) =>
                ret' = Ret(ret'.op, T, TRUE, cells[c].cur, FALSE, 0)]_vars_all
    /\ [][\A c \in CellIds, T \in Types : \A v \in Values(T) :
            CellSet(c, T, v) => cells'[c].cur = v /\ heap'[cells[c].ptr].val = v]_vars_all

\* A get returned 1 while a live DynObj holds a 1 and another live cell of the
\* same type holds a 0.
C20_Witness ==
    /\ ret.op = "get" /\ ret.val = 1
    /\ \E c \in CellIds, d \in CellIds :
        /\ c # d /\ cells[c].st = "live" /\ cells[d].st = "live"
        /\ cells[c].kind = "DynObj" /\ cells[c].cur = 1
        /\ cells[d].cur = 0 /\ cells[d].dropper = cells[c].dropper

\* Thread t is in the middle of a pass over the registry of its schema.
InPass(t) == th[t].pc \in {"new_iter", "drop_iter"}

\* Thread t is between taking the write lock and its push.
Appending(t) == th[t].pc \in {"reg_len", "reg_push"}

\* C22: on one schema no pass of a construction or destruction over the
\* registry overlaps an append: a thread that appends holds the lock alone, the
\* registry does not change while a pass is under way, and a pass is kept out
\* only by an append, never by another pass.
C22_AppendExcludesPasses ==
    /\ [](\A t \in Threads, u \in Threads :
            (Appending(t) /\ u # t /\ th[u].sch = th[t].sch) =>
                ~InPass(u) /\ ~Appending(u))
    /\ [](\A t \in Threads :
            /\ Appending(t) => lock[th[t].sch] = [writer |-> t, readers |-> {}]
            /\ InPass(t) => (t \in lock[th[t].sch].readers /\ lock[th[t].sch].writer = 0)
            /\ (ReaderWaits(t) /\ lock[th[t].sch].writer = 0) =>
                  ENABLED (NewLock(t) \/ DropLock(t)))
    /\ [][\A t \in Threads :
            (InPass(t) /\ InPass(t)') => defs'[th[t].sch] = defs[th[t].sch]]_vars_all

\* A construction has run a constructor and still holds the read lock while a
\* registration on the same schema waits for the write lock.
C22_Witness ==
    \E t \in Threads, u \in Threads :
        /\ th[t].pc = "new_iter" /\ th[t].i = 1 /\ Len(defs[th[t].sch]) = 1
        /\ th[u].pc = "reg_wait" /\ th[u].sch = th[t].sch

\* C23: whatever was registered after an instance was constructed, its
\* destruction runs on slot k the destructor paired with the constructor that
\* produced slot k, on that slot's address; it runs as many destructors as the
\* instance has slots, none of them for a slot registered later, and no box is
\* freed as another type.
C23_DropPairsWithCtor ==
    /\ "type_confusion" \notin faults
    /\ \A o \in ObjIds : objs[o].st \in {"dropping", "dropped"} =>
        /\ Len(dropLog[o]) <= objs[o].born
        /\ objs[o].st = "dropped" => Len(dropLog[o]) = objs[o].born
        /\ \A k \in 1..Len(dropLog[o]) :
              /\ dropLog[o][k].dtor = ctorLog[o][k].ctor
              /\ dropLog[o][k].addr = ctorLog[o][k].addr

\* The destruction of an instance with one slot has run its one destructor
\* while the registry holds a second entry, of another type, registered after
\* the instance was constructed.
C23_Witness ==
    \E o \in ObjIds, t \in Threads :
        /\ objs[o].st = "dropping" /\ th[t].pc = "drop_iter" /\ th[t].o = o
        /\ objs[o].born = 1 /\ Len(dropLog[o]) = 1
        /\ Len(defs[objs[o].sch]) = 2
        /\ defs[objs[o].sch][2].dtor # defs[objs[o].sch][1].dtor
        /\ LateHandles(o) # {}

\* C24: when every registration on a schema is over before the first instance
\* of it is constructed, every handle of the schema has an index below the
\* slot count of every constructed instance of the schema, and no get or
\* get_mut past the end of a slot vector can be made.
C24_DisciplineKeepsInBounds ==
    \A o \in Built : \A h \in vars :
        h.sch = objs[o].sch =>
            /\ h.idx < Len(objs[o].slots)
            /\ \A t \in Threads :
                  /\ ~ENABLED GetOob(t, o, h)
                  /\ \A v \in Values(h.ty) : ~ENABLED WriteOob(t, o, h, v)

\* Under the discipline a live instance with two slots was written through
\* the handle of its last slot.
C24_Witness ==
    \E o \in ObjIds, h \in vars :
        /\ objs[o].st = "live" /\ h.sch = objs[o].sch
        /\ Len(objs[o].slots) = 2 /\ h.idx = 1
        /\ shadow[o][1] # FreeCell

\* The value of serial number n is boxed in an entry of the store.
Stored(n) ==
    \E T \in DOMAIN store : EntryVid(T) = n /\ IsLive(heap, store[T].ptr)

\* 1 when b holds, 0 otherwise.
Count(b) == IF b THEN 1 ELSE 0

\* C25: every value handed to a store is at any time in exactly one place: in
\* an entry of the store, in the caller's hands after a take, or destroyed,
\* once; no value is destroyed twice and no box is freed twice; a box is alive
\* only as long as an entry owns it, so none stays allocated once the store has
\* been dropped; a take destroys nothing, an insert rejected because the type
\* is present destroys the rejected value, and only it, before it returns, and
\* dropping the store destroys exactly the values it held.
C25_ReleasedExactlyOnce ==
    /\ []("double_free" \notin faults)
    /\ [](\A n \in ValIds :
            IF n <= nmade
            THEN /\ dropCnt[n] <= 1
                 /\ Count(Stored(n)) + Count(Held(n)) + dropCnt[n] = 1
            ELSE dropCnt[n] = 0 /\ ~Stored(n) /\ ~Held(n))
    /\ []({a \in Addrs : IsLive(heap, a)} = {store[T].ptr : T \in DOMAIN store})
    /\ [](ret.op = "drop_store" => \A a \in Addrs : ~IsLive(heap, a))
    /\ [][\A T \in Types : TsTake(T) => dropCnt' = dropCnt]_vars_all
    /\ [][\A T \in Types : \A v \in Values(T) :
            TsInsert(T, v) /\ Has(T) =>
                dropCnt' = [dropCnt EXCEPT ![nmade'] = 1]]_vars_all
    /\ [][TsDropStore =>
            \A n \in ValIds : dropCnt'[n] = IF Stored(n) THEN 1 ELSE dropCnt[n]]_vars_all

\* A store was dropped after three values were handed to it: the caller holds
\* one of them, undestroyed, and the two others are destroyed.
C25_Witness ==
    /\ ret.op = "drop_store" /\ nmade = 3
    /\ \E h \in held : dropCnt[h.vid] = 0
    /\ Cardinality({n \in ValIds : dropCnt[n] = 1}) = 2

\* The live checked cells.
LiveObjs == {c \in CellIds : cells[c].st = "live" /\ cells[c].kind = "Obj"}

\* C26: a checked cell never yields a value under a wrong type.  try_get<T> and
\* try_get_mut<T> return Some exactly when T is the type the cell was created
\* with, and then the cell's value as a T; try_into_inner<T> with another T
\* returns Err and leaves the cell, the heap, the destruction counts and the
\* caller's values as they were; every live checked cell owns its undestroyed
\* value in a live box of its type and bears the tag of that type, so it
\* answers try_get for it; and dropping it runs the destructor of its value
\* exactly once.
C26_CheckedCellRefusesWrongType ==
    /\ [](\A c \in LiveObjs :
            /\ IsLive(heap, cells[c].ptr)
            /\ heap[cells[c].ptr].ty = cells[c].dropper
            /\ heap[cells[c].ptr].val = cells[c].cur
            /\ dropCnt[cells[c].vid] = 0
            /\ ObjTypeOk(cells[c], cells[c].dropper)
            /\ \A T \in Types : ENABLED ObjTryGet(c, T))
    /\ []("type_confusion" \notin faults /\ "double_free" \notin faults)
    /\ [][\A c \in CellIds, T \in Types :
            ObjTryGet(c, T) =>
                /\ ret'.some <=> SameType(cells[c], T)
                /\ ret'.some => ret'.ty = cells[c].dropper /\ ret'.val = cells[c].cur]_vars_all
    /\ [][\A c \in CellIds, T \in Types : \A v \in Values(T) :
            ObjTryGetMut(c, T, v) =>
                /\ ret'.some <=> SameType(cells[c], T)
                /\ ~ret'.some => heap' = heap /\ cells' = cells]_vars_all
    /\ [][\A c \in CellIds, T \in Types :
            ObjTryIntoInner(c, T) /\ ~SameType(cells[c], T) =>
                /\ ~ret'.some
                /\ cells' = cells /\ heap' = heap /\ dropCnt' = dropCnt /\ held' = held
                /\ c \in LiveObjs']_vars_all
    /\ [][\A c \in CellIds :
            CellDrop(c) /\ c \in LiveObjs =>
                /\ dropCnt' = [dropCnt EXCEPT ![cells[c].vid] = 1]
                /\ ~IsLive(heap', cells[c].ptr)]_vars_all

\* A checked cell was asked to give up its value under a wrong type and was
\* handed back, alive.
C26_Witness ==
    /\ ret.op = "try_into_inner" /\ ~ret.some
    /\ \E c \in LiveObjs : cells[c].dropper # ret.ty /\ cells[c].cur = 1

\* The unchecked cells (UnsafeObj, DynObj) that were created.
UncheckedCells == {c \in CellIds : cells[c].st # "none" /\ cells[c].kind \in Unchecked}

\* C21: the build configuration never changes.  In a debug build an unchecked
\* cell keeps the tag of the type it was created with, and borrowing or
\* consuming it with another type panics: nothing is returned, the caller gets
\* no value, no box comes to be read or freed as another type.  In a release
\* build an unchecked cell keeps no tag, and the same calls return: the borrow
\* a reference of the requested type, which is not the cell's, and the
\* consumption a value of the requested type to the caller.
C21_TagAssertion ==
    /\ [][debug' = debug]_vars_all
    /\ [](\A c \in UncheckedCells :
            cells[c].tid = IF debug THEN TypeIdOf(cells[c].dropper) ELSE "-")
    /\ [](debug => "type_confusion" \notin faults)
    /\ [][\A c \in CellIds, U \in Types, op \in {"get", "get_mut"} : \A x \in Values(U) :
            CellGetAs(c, U, op, x) =>
                IF debug
                THEN ret' = Panic(U) /\ held' = held /\ heap' = heap
                ELSE /\ ret'.op = op /\ ret'.some
                     /\ ret'.ty = U /\ ret'.ty # cells[c].dropper]_vars_all
    /\ [][\A c \in CellIds, U \in Types : \A x \in Values(U) :
            CellIntoInnerAs(c, U, x) =>
                IF debug
                THEN ret' = Panic(U) /\ held' = held
                ELSE /\ ret'.op = "into_inner" /\ ret'.some /\ ret'.ty = U
                     /\ \E h \in held' : h.ty = U /\ h.vid = cells[c].vid]_vars_all

\* In a debug build a call with a wrong type has just panicked, and the cell it
\* was to consume was dropped by the unwinding, its value destroyed once.
C21_Witness ==
    /\ debug
    /\ ret.op = "panic"
    /\ \E c \in UncheckedCells :
        /\ cells[c].st = "dropped"
        /\ cells[c].dropper # ret.ty
        /\ dropCnt[cells[c].vid] = 1

\* In a release build a borrow with a wrong type has just returned a reference
\* of that type.
ReleaseConfused ==
    /\ ~debug
    /\ ret.op \in {"get", "get_mut"} /\ ret.some
    /\ \E c \in UncheckedCells :
        cells[c].st = "live" /\ cells[c].dropper # ret.ty /\ cells[c].tid = "-"

====
